---- MODULE Spec2Model ----
(***************************************************************************)
(* Resilient upload pipeline of mux-poc.                                   *)
(*                                                                         *)
(* Part 1: the upload service worker (src/unnamed/part_000), the durable   *)
(* record store it shares with the pages (IndexedDB object store           *)
(* "pending-uploads") and the pages' store wrapper (UploadService in       *)
(* src/app/components/ScreenRecorder.tsx).                                 *)
(*                                                                         *)
(* The worker is one cooperative event loop.  Every invocation of a        *)
(* handler is a task; a task runs from one await to the next in one        *)
(* atomic step, and the steps of different tasks interleave freely.        *)
(* An IndexedDB request may fail (request.onerror -> reject); a fetch      *)
(* may answer ok, answer with a non-ok status, or reject.                  *)
(*                                                                         *)
(* Part 2: the pages' store wrapper with the clock (save, update, purge),  *)
(* the bridge between a page and the worker (useServiceWorker,             *)
(* src/unnamed/part_001) and the live relay session of ScreenRecorder      *)
(* (handshake, frames, backpressure).                                      *)
(*                                                                         *)
(* Part 3: the whole live session (start failures, relay loss, the stop    *)
(* sequence of stopRecording) and the chunked upload driver of the live    *)
(* path.  The driver is not among the sources; its actions follow the      *)
(* algorithm of section 4.4 of the specification.                          *)
(*                                                                         *)
(* Part 4: the opening of the pages' database connection (getDB), the      *)
(* termination of the worker by the browser and its restart by a sync      *)
(* event, and the live session with the capture track ending by itself     *)
(* and with more than one call of stopRecording in progress.               *)
(*                                                                         *)
(* Each part has specifications of its own; the variables of the other     *)
(* parts stay as Init leaves them.                                         *)
(***************************************************************************)
EXTENDS Integers, Sequences, FiniteSets, TLC

\* ---------------------------------------------------------------- bounds
NumIds == 2         \* records a page may save in one run
MaxTasks == 2       \* handler invocations of the worker in one run
NumPages == 1       \* pages (clients) the worker controls
MaxFaults == 1      \* IndexedDB requests that may fail in one run
MaxDays == 1        \* whole purge ages (24 h) the clock may advance
MaxMs == 1          \* single milliseconds the clock may advance
MaxRetry == 1       \* highest retryCount a page update may write
MaxPosts == 2       \* messages the bridge may post to the worker in one run
MaxCalls == 2       \* callback invocations of the bridge in one run
MaxFrames == 4      \* dataavailable events of the recorder in one run
MaxChunks == 4      \* chunks one chunk session may queue before its last
MaxDbCalls == 5     \* calls of UploadService.getDB in one run
MaxCrashes == 1     \* terminations of the worker in one run
MaxStops == 2       \* calls of stopRecording in one session

Ids == 1..NumIds
DbCalls == 1..MaxDbCalls
Stops == 1..MaxStops
TaskIds == 1..MaxTasks
Pages == 1..NumPages

\* ------------------------------------------------------------ data model
\* PendingUpload["status"]; "absent" marks a key with no record.
Statuses == {"pending", "uploading", "complete", "failed"}

NoRec == [status |-> "absent", retryCount |-> 0, createdAt |-> 0]

\* The record saveRecording builds: status pending, retryCount 0; its
\* createdAt is set to Date.now() by the caller of this definition.
NewRec == [status |-> "pending", retryCount |-> 0, createdAt |-> 0]

\* cleanupOldUploads: 24 * 60 * 60 * 1000 ms, the age of the purge.
MaxAgeMs == 24 * 60 * 60 * 1000

\* The status arguments of the page's updateStatus(id, status, ...).  The
\* type also admits "complete"; nothing in the repository passes it.
StatusArgs == {"pending", "uploading", "failed"}

\* The page's updateStatus between its getRecording and its put.
IdlePageTask == [pc |-> "idle", rec |-> 0, status |-> "none",
                 incrementRetry |-> FALSE, snap |-> NoRec]

\* recording.uploadId: the remote upload id stored with record id.
UploadIdOf(id) == 100 + id

\* The async function a task runs: the START_UPLOAD branch of the message
\* listener, or processPendingUploads (called by the PROCESS_PENDING branch
\* and by the activate and sync listeners alike).
Fns == {"startUpload", "processPendingUploads"}

SyncTags == {"upload-video", "other"}

FetchOutcomes == {"ok", "status", "network"}

NoteKinds == {"UPLOAD_COMPLETE", "UPLOAD_FAILED"}

IdleTask == [fn |-> "none", pc |-> "idle", rec |-> 0, snap |-> NoRec,
             todo |-> <<>>, scanned |-> <<>>, puts |-> <<>>, resp |-> "none",
             err |-> "none", fault |-> FALSE, imm |-> FALSE]

\* ServiceWorker.state, "none" when the registration holds no worker yet.
SwStates ==
    {"none", "installing", "installed", "activating", "activated", "redundant"}

\* The messages the bridge posts: startUpload(id), processPendingUploads()
\* and, through the generic postMessage, SKIP_WAITING.
Commands ==
    {[type |-> "START_UPLOAD", id |-> id] : id \in Ids} \cup
    {[type |-> "PROCESS_PENDING", id |-> 0], [type |-> "SKIP_WAITING", id |-> 0]}

\* error.message of a failed delivery: the text of the Error uploadBlob
\* throws on a non-ok response, or the text the platform gives the error of
\* a rejected fetch or store request, which may be empty.
ErrorTexts == {"", "Upload failed with status 500"}

\* event.data of the messages a page receives from the worker; a field the
\* message does not carry is "".
Inbound ==
    {[type |-> "UPLOAD_COMPLETE", id |-> "upload-1", uploadId |-> "remote-1",
      error |-> ""]} \cup
    {[type |-> "UPLOAD_FAILED", id |-> "upload-1", uploadId |-> "",
      error |-> e] : e \in ErrorTexts} \cup
    {[type |-> "OTHER", id |-> "upload-1", uploadId |-> "remote-1",
      error |-> "text"]}

\* WS_BUFFER_LIMIT: the ceiling of the socket's send buffer, in bytes.
WS_BUFFER_LIMIT == 5 * 1024 * 1024

\* event.data.size of a dataavailable event: empty, a small chunk, a chunk
\* as large as the ceiling.
FrameSizes == {0, 1, WS_BUFFER_LIMIT}

\* The occupancies the send buffer may fall to as the network takes data.
DrainLevels == {0, WS_BUFFER_LIMIT}

\* msg.type of the JSON messages of the relay.
RelayTypes == {"ready", "error", "other"}

\* What is sent on the socket: the handshake {streamKey, mimeType}, and
\* the chunk of the n-th dataavailable event.
HANDSHAKE == [kind |-> "handshake", n |-> 0]

Frame(n) == [kind |-> "frame", n |-> n]

\* The texts setError is called with: a refused capture, any other
\* failure of startRecording, a relay that closed the socket.
DeniedText == "Screen sharing was cancelled or denied."

FailedText == "Failed to start live stream."

LostText == "Connection to relay server was lost."

\* err.message of the NotSupportedError that MediaRecorder.start() throws.
NotSupportedText == "NotSupportedError"

\* A call of getDB: where it is, the connection it returned (0 for none),
\* and whether it had to await the open.
IdleCall == [pc |-> "idle", conn |-> 0, waited |-> FALSE]

NoMessage == [type |-> "none", id |-> "", uploadId |-> "", error |-> ""]

VARIABLES
    store,      \* object store "pending-uploads": id -> record or NoRec
    nextId,     \* ids are generated fresh: the next one saveRecording uses
    tasks,      \* the worker's handler invocations, by slot
    activated,  \* the slot of the task the activate event started, 0
                \* before the event
    notes,      \* clients.matchAll() promises not yet resolved
    inbox,      \* page -> the notifications posted to it, counted by
                \* type and record id
    faults,     \* IndexedDB requests that have failed so far
    now,        \* Date.now() of the pages, in ms since the start of the run
    saved,      \* how the last saveRecording settled: 0 before the first
                \* call, the id it resolved with, -1 when it rejected
    pageTask,   \* the page's updateStatus call in progress
    swState,    \* state of the service worker of the registration
    registration,   \* useServiceWorker: registration is set (not null)
    isReady,    \* useServiceWorker: isReady
    workerRef,  \* useServiceWorker: workerRef.current is set (not null)
    watching,   \* a statechange listener is attached to the worker
    outbox,     \* the messages posted to the worker, in order
    ret,        \* what the last postMessage of the bridge returned
    syncSupported,  \* whether the platform has registration.sync:
                    \* "unknown" until it is first looked at
    syncTags,   \* the tags registered for background sync
    syncRet,    \* what the last requestBackgroundSync returned
    lastEvent,  \* event.data of the last message event handleMessage got
    called,     \* the callbacks handleMessage has invoked, in order
    status,     \* ScreenRecorder: status
    statusRef,  \* ScreenRecorder: statusRef.current
    startPc,    \* where the call of startRecording is
    wsState,    \* the relay WebSocket: none, connecting, open, closed
    readySeen,  \* a ready message of the relay has arrived on the socket
    outbound,   \* what has been sent on the socket, in order: the
                \* handshake, and frames by their number
    bufferedAmount, \* ws.bufferedAmount
    recorder,   \* the MediaRecorder: none, recording, flushing, inactive
    frameNo,    \* dataavailable events so far
    dropped,    \* the frames dropped because the buffer was over the limit
    tracks,     \* the tracks of localStreamRef: none, running, stopped
                \* (by track.stop()), ended (by the user or the source)
    timer,      \* the duration timer (timerRef) is running
    error,      \* ScreenRecorder: error ("" for null)
    stopPc,     \* where each call of stopRecording is
    log,        \* the steps of stopRecording carried out, in order
    requests,   \* calls so far: getDisplayMedia, POST /api/live-stream,
                \* new WebSocket, DELETE /api/live-stream, and
                \* onUploadComplete with status live and status complete
    wsRef,      \* wsRef.current is set (not null)
    closing,    \* the close event of the socket stopRecording closed is
                \* still to come
    buffered,   \* chunk session: bytes buffered and not yet cut into a chunk
    totalBytes, \* chunk session: bytes of all fragments so far
    pending,    \* chunk session: the FIFO of pending chunks
    uploadedBytes,  \* chunk session: the offset confirmed by the endpoint
    loops,      \* chunk session: delivery loops running
    inFlight,   \* chunk session: the chunk PUTs issued and not settled
    issued,     \* chunk session: every chunk PUT issued, in order
    sessionFailed,  \* chunk session: the terminal-failure flag
    deferred,   \* the payload handed to deferred delivery, in bytes; -1
                \* when none was
    finalSeen,  \* chunk session: the final fragment has arrived
    db,         \* UploadService: this.db, the connection held (0 for null)
    dbPromise,  \* UploadService: this.dbPromise: none, pending, resolved,
                \* rejected
    opens,      \* calls of indexedDB.open by the UploadService so far
    getting,    \* the calls of getDB, by slot
    crashes     \* terminations of the worker by the browser so far

pageVars == <<now, saved, pageTask>>

bridgeVars == <<swState, registration, isReady, workerRef, watching, outbox,
                ret, syncSupported, syncTags, syncRet, lastEvent, called>>

chunkVars == <<buffered, totalBytes, pending, uploadedBytes, loops, inFlight,
               issued, sessionFailed, deferred, finalSeen>>

dbVars == <<db, dbPromise, opens, getting>>

crashVars == <<crashes>>

relayVars == <<status, statusRef, startPc, wsState, readySeen, outbound,
               bufferedAmount, recorder, frameNo, dropped, tracks, timer,
               error, stopPc, log, requests, wsRef, closing>>

\* The variables the worker and its store do not touch.
outside == <<pageVars, bridgeVars, relayVars, chunkVars, dbVars, crashVars>>

vars == <<store, nextId, tasks, activated, notes, inbox, faults, pageVars,
          bridgeVars, relayVars, chunkVars, dbVars, crashVars>>

workerVars == <<store, nextId, tasks, activated, notes, inbox, faults>>

\* self.clients.matchAll(): the pages the worker controls; the pages of the
\* model stay open.
clients == Pages

\* -------------------------------------------------------------- helpers
Present(id) == store[id].status # "absent"

RECURSIVE SortedSeq(_)
SortedSeq(S) ==
    IF S = {} THEN <<>>
    ELSE LET m == CHOOSE x \in S : \A y \in S : x <= y
         IN  <<m>> \o SortedSeq(S \ {m})

\* index.getAll(IDBKeyRange.only("pending")): the records whose status is
\* pending, in primary-key order.
PendingMatch(id) == store[id].status = "pending"

getPendingUploads == SortedSeq({id \in Ids : PendingMatch(id)})

UsedSlots == {t \in TaskIds : tasks[t].pc # "idle"}

FreeSlot == Cardinality(UsedSlots) + 1

CanFault == faults < MaxFaults

\* A PUT of task t is in flight: fetch() called, its promise not settled.
InFlight(t) == tasks[t].pc = "fetch"

Init ==
    /\ store = [id \in Ids |-> NoRec]
    /\ nextId = 1
    /\ tasks = [t \in TaskIds |-> IdleTask]
    /\ activated = 0
    /\ notes = {}
    /\ inbox = [p \in Pages |-> [k \in NoteKinds \X Ids |-> 0]]
    /\ faults = 0
    /\ now = 0
    /\ saved = 0
    /\ pageTask = IdlePageTask
    /\ swState = "none"
    /\ registration = FALSE
    /\ isReady = FALSE
    /\ workerRef = FALSE
    /\ watching = FALSE
    /\ outbox = <<>>
    /\ ret = "none"
    /\ syncSupported = "unknown"
    /\ syncTags = {}
    /\ syncRet = "none"
    /\ lastEvent = NoMessage
    /\ called = <<>>
    /\ status = "idle"
    /\ statusRef = "idle"
    /\ startPc = "idle"
    /\ wsState = "none"
    /\ readySeen = FALSE
    /\ outbound = <<>>
    /\ bufferedAmount = 0
    /\ recorder = "none"
    /\ frameNo = 0
    /\ dropped = {}
    /\ tracks = "none"
    /\ timer = FALSE
    /\ error = ""
    /\ stopPc = [k \in Stops |-> "idle"]
    /\ log = <<>>
    /\ requests = [capture |-> 0, stream |-> 0, socket |-> 0, finish |-> 0,
                   live |-> 0, complete |-> 0]
    /\ wsRef = FALSE
    /\ closing = FALSE
    /\ buffered = 0
    /\ totalBytes = 0
    /\ pending = <<>>
    /\ uploadedBytes = 0
    /\ loops = 0
    /\ inFlight = {}
    /\ issued = <<>>
    /\ sessionFailed = FALSE
    /\ deferred = -1
    /\ finalSeen = FALSE
    /\ db = 0
    /\ dbPromise = "none"
    /\ opens = 0
    /\ getting = [c \in DbCalls |-> IdleCall]
    /\ crashes = 0

\* ------------------------------------------------------- page-side store
\* UploadService.saveRecording: store.add of a new pending record under a
\* freshly generated id.
PageSave ==
    /\ nextId <= NumIds
    /\ store' = [store EXCEPT ![nextId] = [NewRec EXCEPT !.createdAt = now]]
    /\ nextId' = nextId + 1
    /\ saved' = nextId
    /\ UNCHANGED <<tasks, activated, notes, inbox, faults>>
    /\ UNCHANGED <<now, pageTask>>
    /\ UNCHANGED <<bridgeVars, relayVars, chunkVars, dbVars, crashVars>>

\* Faulty variant of AddExisting: store.put in place of store.add, which
\* replaces the record under the key.
PutExisting(id) ==
    /\ store' = [store EXCEPT ![id] = [NewRec EXCEPT !.createdAt = now]]
    /\ saved' = id

\* store.add(upload) when the key is already in the store: the request
\* fails with a ConstraintError, request.onerror rejects the promise and
\* nothing is written.
AddExisting(id) ==
    /\ store' = store
    /\ saved' = -1

\* UploadService.saveRecording when the generated id (Date.now() and seven
\* random characters) is the id of a record already in the store.
PageSaveCollide(id) ==
    /\ Present(id)
    /\ AddExisting(id)
    /\ UNCHANGED <<nextId, tasks, activated, notes, inbox, faults>>
    /\ UNCHANGED <<now, pageTask>>
    /\ UNCHANGED <<bridgeVars, relayVars, chunkVars, dbVars, crashVars>>

\* UploadService.markUploadComplete: store.delete(id), used by a page to
\* drop a record (discarding a recording, or after its own delivery).
PageDiscard(id) ==
    /\ Present(id)
    /\ store' = [store EXCEPT ![id] = NoRec]
    /\ UNCHANGED <<nextId, tasks, activated, notes, inbox, faults>>
    /\ UNCHANGED outside

\* Date.now() advances, by a millisecond or by the age of the purge.
Tick ==
    /\ \/ /\ now % MaxAgeMs < MaxMs
          /\ now' = now + 1
       \/ /\ now \div MaxAgeMs < MaxDays
          /\ now' = now + MaxAgeMs
    /\ UNCHANGED <<store, nextId, tasks, activated, notes, inbox, faults>>
    /\ UNCHANGED <<saved, pageTask>>
    /\ UNCHANGED <<bridgeVars, relayVars, chunkVars, dbVars, crashVars>>

\* IDBKeyRange.upperBound(cutoff) on the createdAt index: the bound is
\* closed (open defaults to false).
InPurgeRange(createdAt, cutoff) == createdAt <= cutoff

\* UploadService.cleanupOldUploads: one readwrite transaction whose cursor
\* deletes every record of the range.
PageCleanup ==
    /\ LET cutoff == now - MaxAgeMs
       IN  store' = [id \in Ids |->
                        IF Present(id) /\ InPurgeRange(store[id].createdAt, cutoff)
                        THEN NoRec
                        ELSE store[id]]
    /\ UNCHANGED <<nextId, tasks, activated, notes, inbox, faults>>
    /\ UNCHANGED pageVars
    /\ UNCHANGED <<bridgeVars, relayVars, chunkVars, dbVars, crashVars>>

\* const updated = {...recording, status, retryCount: incrementRetry ?
\* recording.retryCount + 1 : recording.retryCount}
Updated(recording, newStatus, incrementRetry) ==
    [recording EXCEPT !.status = newStatus,
                      !.retryCount = IF incrementRetry THEN @ + 1 ELSE @]

\* UploadService.updateStatus up to the end of its getRecording: no record,
\* return; otherwise the put follows in a transaction of its own.
PageUsRead(id, newStatus, incrementRetry) ==
    /\ pageTask.pc = "idle"
    /\ id < nextId
    /\ incrementRetry => store[id].retryCount < MaxRetry
    /\ pageTask' = IF Present(id)
                   THEN [pc |-> "put", rec |-> id, status |-> newStatus,
                         incrementRetry |-> incrementRetry, snap |-> store[id]]
                   ELSE IdlePageTask
    /\ UNCHANGED <<store, nextId, tasks, activated, notes, inbox, faults>>
    /\ UNCHANGED <<now, saved>>
    /\ UNCHANGED <<bridgeVars, relayVars, chunkVars, dbVars, crashVars>>

\* UploadService.updateStatus: store.put(updated).
PageUsWrite ==
    /\ pageTask.pc = "put"
    /\ store' = [store EXCEPT ![pageTask.rec] =
                    Updated(pageTask.snap, pageTask.status,
                            pageTask.incrementRetry)]
    /\ pageTask' = IdlePageTask
    /\ UNCHANGED <<nextId, tasks, activated, notes, inbox, faults>>
    /\ UNCHANGED <<now, saved>>
    /\ UNCHANGED <<bridgeVars, relayVars, chunkVars, dbVars, crashVars>>

\* ------------------------------------------------- page-side connection
\* Faulty variant of Opening: a pending open is not looked at.
OpeningNever(promise) == promise # promise

\* if (this.dbPromise) return this.dbPromise
Opening(promise) == promise # "none"

\* What awaiting this.dbPromise gives a call: the connection, a rejection,
\* or nothing yet.
Awaited(call) ==
    IF dbPromise = "resolved" THEN [call EXCEPT !.pc = "got", !.conn = opens]
    ELSE IF dbPromise = "rejected" THEN [call EXCEPT !.pc = "rejected"]
    ELSE [call EXCEPT !.pc = "waiting", !.waited = TRUE]

\* getDB(): the connection held, else the promise of the open under way,
\* else indexedDB.open and its promise.
GetDB(c) ==
    /\ getting[c].pc = "idle"
    /\ \A b \in DbCalls : b < c => getting[b].pc # "idle"
    /\ IF db # 0
       THEN /\ getting' = [getting EXCEPT ![c].pc = "got", ![c].conn = db]
            /\ UNCHANGED <<dbPromise, opens>>
       ELSE IF Opening(dbPromise)
            THEN /\ getting' = [getting EXCEPT ![c] = Awaited(getting[c])]
                 /\ UNCHANGED <<dbPromise, opens>>
            ELSE /\ opens' = opens + 1
                 /\ dbPromise' = "pending"
                 /\ getting' = [getting EXCEPT ![c].pc = "waiting",
                                                ![c].waited = TRUE]
    /\ UNCHANGED db
    /\ UNCHANGED <<workerVars, pageVars, bridgeVars, relayVars, chunkVars,
                   crashVars>>

\* The open request settles: onsuccess sets this.db and resolves the
\* promise, onerror rejects it.
OpenDone(ok) ==
    /\ dbPromise = "pending"
    /\ dbPromise' = IF ok THEN "resolved" ELSE "rejected"
    /\ db' = IF ok THEN opens ELSE db
    /\ UNCHANGED <<opens, getting>>
    /\ UNCHANGED <<workerVars, pageVars, bridgeVars, relayVars, chunkVars,
                   crashVars>>

\* A call that awaits the promise goes on once the promise is settled.
GetDBResume(c) ==
    /\ getting[c].pc = "waiting"
    /\ dbPromise \in {"resolved", "rejected"}
    /\ getting' = [getting EXCEPT ![c] = Awaited(getting[c])]
    /\ UNCHANGED <<db, dbPromise, opens>>
    /\ UNCHANGED <<workerVars, pageVars, bridgeVars, relayVars, chunkVars,
                   crashVars>>

\* ----------------------------------------------------------- the bridge
\* The service worker of the registration moves through its lifecycle;
\* a statechange listener that is attached sees the new state.
SwAdvance(to) ==
    /\ <<swState, to>> \in
          {<<"none", "installing">>, <<"installing", "installed">>,
           <<"installing", "redundant">>, <<"installed", "activating">>,
           <<"activating", "activated">>}
    /\ swState' = to
    /\ IF watching /\ to = "activated"
       THEN workerRef' = TRUE /\ isReady' = TRUE
       ELSE UNCHANGED <<workerRef, isReady>>
    /\ UNCHANGED <<registration, watching, outbox, ret, syncSupported,
                   syncTags, syncRet, lastEvent, called>>
    /\ UNCHANGED <<workerVars, pageVars, relayVars, chunkVars, dbVars,
                   crashVars>>

\* reg.active || reg.waiting || reg.installing: the registration holds a
\* worker in one of its three slots.
HoldsWorker == swState \in {"installing", "installed", "activating", "activated"}

\* reg.active: the active slot holds the worker from "activating" on.
HasActive == swState \in {"activating", "activated"}

\* registerWorker: navigator.serviceWorker.register resolved.
RegisterDone ==
    /\ ~registration
    /\ swState # "none"
    /\ registration' = TRUE
    /\ IF HoldsWorker
       THEN workerRef' = TRUE /\ isReady' = TRUE
       ELSE UNCHANGED <<workerRef, isReady>>
    /\ UNCHANGED <<swState, watching, outbox, ret, syncSupported, syncTags,
                   syncRet, lastEvent, called>>
    /\ UNCHANGED <<workerVars, pageVars, relayVars, chunkVars, dbVars,
                   crashVars>>

\* The updatefound event of the registration: the listener attaches a
\* statechange listener to reg.installing if there is one.
UpdateFound ==
    /\ registration
    /\ swState = "installing"
    /\ watching' = TRUE
    /\ UNCHANGED <<swState, registration, isReady, workerRef, outbox, ret,
                   syncSupported, syncTags, syncRet, lastEvent, called>>
    /\ UNCHANGED <<workerVars, pageVars, relayVars, chunkVars, dbVars,
                   crashVars>>

\* Faulty variant of PostOrRefuse: the message is posted whether or not
\* the bridge is ready.
PostAlways(message) ==
    /\ outbox' = Append(outbox, message)
    /\ ret' = "true"

\* The body of postMessage: false when not ready; otherwise the worker is
\* workerRef.current || registration?.active || controller, and the message
\* is posted to it if there is one.
PostOrRefuse(message) ==
    IF ~isReady
    THEN ret' = "false" /\ UNCHANGED outbox
    ELSE IF workerRef \/ (registration /\ HasActive) \/ swState = "activated"
         THEN outbox' = Append(outbox, message) /\ ret' = "true"
         ELSE ret' = "false" /\ UNCHANGED outbox

\* postMessage(message), and startUpload(id) and processPendingUploads()
\* which call it.
postMessage(message) ==
    /\ Len(outbox) < MaxPosts
    /\ PostOrRefuse(message)
    /\ UNCHANGED <<swState, registration, isReady, workerRef, watching,
                   syncSupported, syncTags, syncRet, lastEvent, called>>
    /\ UNCHANGED <<workerVars, pageVars, relayVars, chunkVars, dbVars,
                   crashVars>>

\* requestBackgroundSync: false without a registration; with sync support
\* the tag is registered (true) or the registration is refused (caught,
\* false); without sync support, false.
requestBackgroundSync ==
    /\ IF ~registration
       THEN syncRet' = "false" /\ UNCHANGED <<syncTags, syncSupported>>
       ELSE \E has \in {"yes", "no"} :
              /\ syncSupported \in {"unknown", has}
              /\ syncSupported' = has
              /\ IF has = "yes"
                 THEN \/ /\ syncTags' = syncTags \cup {"upload-video"}
                         /\ syncRet' = "true"
                      \/ syncRet' = "false" /\ UNCHANGED syncTags
                 ELSE syncRet' = "false" /\ UNCHANGED syncTags
    /\ UNCHANGED <<swState, registration, isReady, workerRef, watching, outbox,
                   ret, lastEvent, called>>
    /\ UNCHANGED <<workerVars, pageVars, relayVars, chunkVars, dbVars,
                   crashVars>>

\* if (uploadId), if (id && error): a string is truthy unless empty.
Truthy(text) == text # ""

\* handleMessage: the callbacks one message event invokes.
Dispatch(data) ==
    IF data.type = "UPLOAD_COMPLETE" /\ Truthy(data.uploadId)
    THEN <<[fn |-> "onUploadComplete", a |-> data.uploadId, b |-> ""]>>
    ELSE IF data.type = "UPLOAD_FAILED" /\ Truthy(data.id) /\ Truthy(data.error)
         THEN <<[fn |-> "onUploadFailed", a |-> data.id, b |-> data.error]>>
         ELSE <<>>

\* A message event of navigator.serviceWorker reaches handleMessage.
handleMessage(data) ==
    /\ Len(called) < MaxCalls
    /\ lastEvent' = data
    /\ called' = called \o Dispatch(data)
    /\ UNCHANGED <<swState, registration, isReady, workerRef, watching, outbox,
                   ret, syncSupported, syncTags, syncRet>>
    /\ UNCHANGED <<workerVars, pageVars, relayVars, chunkVars, dbVars,
                   crashVars>>

\* ------------------------------------------------------- the live relay
\* The variables of the session that a step of the recorder, of the buffer
\* or of the status effect leaves alone.
sessionVars == <<tracks, timer, error, stopPc, log, requests, wsRef, closing>>

\* startRecording up to its first await (getDisplayMedia).
StartRecording ==
    /\ startPc = "idle"
    /\ status' = "connecting"
    /\ error' = ""
    /\ startPc' = "capture"
    /\ requests' = [requests EXCEPT !.capture = @ + 1]
    /\ UNCHANGED <<statusRef, wsState, readySeen, outbound, bufferedAmount,
                   recorder, frameNo, dropped>>
    /\ UNCHANGED <<tracks, timer, stopPc, log, wsRef, closing>>
    /\ UNCHANGED <<workerVars, pageVars, bridgeVars, chunkVars, dbVars,
                   crashVars>>

\* The effect that copies status into statusRef after a render.
SyncStatusRef ==
    /\ statusRef # status
    /\ statusRef' = status
    /\ UNCHANGED <<status, startPc, wsState, readySeen, outbound,
                   bufferedAmount, recorder, frameNo, dropped>>
    /\ UNCHANGED sessionVars
    /\ UNCHANGED <<workerVars, pageVars, bridgeVars, chunkVars, dbVars,
                   crashVars>>

\* cleanup(): a recording MediaRecorder is stopped (its last chunk is
\* still to come), an open socket is closed.
CleanedRecorder == IF recorder = "recording" THEN "flushing" ELSE recorder

\* if (wsRef.current && wsRef.current.readyState === WebSocket.OPEN)
CleanedSocket == IF wsRef /\ wsState = "open" THEN "closed" ELSE wsState

\* localStreamRef.current?.getTracks().forEach((t) => t.stop())
CleanedTracks == IF tracks = "running" THEN "stopped" ELSE tracks

\* cleanup(): the timer is cleared, the recorder stopped, the tracks
\* stopped, the socket closed if it is open, the refs set to null.
Cleanup ==
    /\ timer' = FALSE
    /\ recorder' = CleanedRecorder
    /\ tracks' = CleanedTracks
    /\ wsState' = CleanedSocket
    /\ wsRef' = FALSE

\* Faulty variant of StartFails: the status is left as it is.
StartFailsQuietly(text) ==
    /\ Cleanup
    /\ error' = text
    /\ status' = status
    /\ startPc' = "failed"

\* The catch block of startRecording: cleanup(), setError, setStatus("error").
StartFails(text) ==
    /\ Cleanup
    /\ error' = text
    /\ status' = "error"
    /\ startPc' = "failed"

\* Faulty variant of CaptureDone: a refused capture is asked for again.
CaptureDoneRetries(granted) ==
    /\ startPc = "capture"
    /\ IF granted
       THEN /\ startPc' = "create"
            /\ tracks' = "running"
            /\ requests' = [requests EXCEPT !.stream = @ + 1]
       ELSE /\ requests.capture = 1
            /\ requests' = [requests EXCEPT !.capture = @ + 1]
            /\ UNCHANGED <<startPc, tracks>>
    /\ UNCHANGED <<status, error, wsState, recorder, timer, wsRef>>
    /\ UNCHANGED <<statusRef, readySeen, outbound, bufferedAmount, frameNo,
                   dropped, stopPc, log, closing>>
    /\ UNCHANGED <<workerVars, pageVars, bridgeVars, chunkVars, dbVars,
                   crashVars>>

\* getDisplayMedia settled: the stream, after which POST /api/live-stream
\* is sent, or a rejection (NotAllowedError).
CaptureDone(granted) ==
    /\ startPc = "capture"
    /\ IF granted
       THEN /\ startPc' = "create"
            /\ tracks' = "running"
            /\ requests' = [requests EXCEPT !.stream = @ + 1]
            /\ UNCHANGED <<status, error, wsState, recorder, timer, wsRef>>
       ELSE /\ StartFails(DeniedText)
            /\ UNCHANGED requests
    /\ UNCHANGED <<statusRef, readySeen, outbound, bufferedAmount, frameNo,
                   dropped, stopPc, log, closing>>
    /\ UNCHANGED <<workerVars, pageVars, bridgeVars, chunkVars, dbVars,
                   crashVars>>

\* POST /api/live-stream settled: with the stream key the WebSocket is
\* created and the handshake promise awaited; a non-ok answer throws.
CreateDone(ok) ==
    /\ startPc = "create"
    /\ IF ok
       THEN /\ startPc' = "handshake"
            /\ wsState' = "connecting"
            /\ wsRef' = TRUE
            /\ requests' = [requests EXCEPT !.socket = @ + 1]
            /\ UNCHANGED <<status, error, recorder, tracks, timer>>
       ELSE /\ StartFails(FailedText)
            /\ UNCHANGED requests
    /\ UNCHANGED <<statusRef, readySeen, outbound, bufferedAmount, frameNo,
                   dropped, stopPc, log, closing>>
    /\ UNCHANGED <<workerVars, pageVars, bridgeVars, chunkVars, dbVars,
                   crashVars>>

\* The open event: ws.send(JSON.stringify({streamKey, mimeType})).
WsOpen ==
    /\ wsState = "connecting"
    /\ wsState' = "open"
    /\ outbound' = Append(outbound, HANDSHAKE)
    /\ UNCHANGED <<status, statusRef, startPc, readySeen, bufferedAmount,
                   recorder, frameNo, dropped>>
    /\ UNCHANGED sessionVars
    /\ UNCHANGED <<workerVars, pageVars, bridgeVars, chunkVars, dbVars,
                   crashVars>>

\* The error event of the socket, or the handshake timer (12 s), while the
\* handshake promise is pending: the promise rejects.
HandshakeFails ==
    /\ startPc = "handshake"
    /\ StartFails(FailedText)
    /\ UNCHANGED <<statusRef, readySeen, outbound, bufferedAmount, frameNo,
                   dropped, stopPc, log, requests, closing>>
    /\ UNCHANGED <<workerVars, pageVars, bridgeVars, chunkVars, dbVars,
                   crashVars>>

\* Faulty variant of Resolves: any message of the relay ends the wait.
ResolvesOnAny(type) == type \in RelayTypes

\* if (msg.type === "ready") resolve()
Resolves(type) == type = "ready"

\* if (msg.type === "error") reject(...)
Rejects(type) == type = "error"

\* mediaRecorder.start(1000) on a stream none of whose tracks is live
\* throws (NotSupportedError), into the catch block of startRecording.
Inactive(state) == state # "running"

\* A message of the relay arrives.  While the handshake promise is
\* pending, ready resolves it and startRecording runs on: the MediaRecorder
\* is created and started, setStatus("live"), the timer set,
\* onUploadComplete called with status live; error rejects it.
RelayMessage(type) ==
    /\ wsState = "open"
    /\ readySeen' = (readySeen \/ type = "ready")
    /\ IF startPc = "handshake" /\ Resolves(type)
       THEN IF Inactive(tracks)
            THEN /\ StartFails(NotSupportedText)
                 /\ UNCHANGED requests
            ELSE /\ recorder' = "recording"
                 /\ status' = "live"
                 /\ timer' = TRUE
                 /\ startPc' = "done"
                 /\ requests' = [requests EXCEPT !.live = @ + 1]
                 /\ UNCHANGED <<wsState, wsRef, tracks, error>>
       ELSE IF startPc = "handshake" /\ Rejects(type)
            THEN /\ StartFails(FailedText)
                 /\ UNCHANGED requests
            ELSE UNCHANGED <<recorder, status, startPc, wsState, wsRef,
                             tracks, timer, error, requests>>
    /\ UNCHANGED <<statusRef, outbound, bufferedAmount, frameNo, dropped,
                   stopPc, log, closing>>
    /\ UNCHANGED <<workerVars, pageVars, bridgeVars, chunkVars, dbVars,
                   crashVars>>

\* Faulty variant of OverLimit: the ceiling is taken twice as high.
OverTwiceLimit(amount) == amount > 2 * WS_BUFFER_LIMIT

\* Faulty variant of OverLimit: a buffer exactly at the limit counts as
\* full.
AtOrOverLimit(amount) == amount >= WS_BUFFER_LIMIT

\* if (ws.bufferedAmount > WS_BUFFER_LIMIT)
OverLimit(amount) == amount > WS_BUFFER_LIMIT

\* Faulty variant of Ignored: only an empty chunk is ignored.
IgnoredWhenEmpty(size, state) == size = 0

\* if (event.data.size === 0) return;
\* if (ws.readyState !== WebSocket.OPEN) return;
Ignored(size, state) == size = 0 \/ state # "open"

\* mediaRecorder.ondataavailable: an empty chunk and a socket that is not
\* open return; a buffer over the limit drops the chunk; otherwise
\* ws.send(event.data).  The chunk after stop() is the recorder's last.
DataAvailable(size) ==
    /\ recorder \in {"recording", "flushing"}
    /\ frameNo < MaxFrames \/ recorder = "flushing"
    /\ frameNo' = frameNo + 1
    /\ recorder' = IF recorder = "flushing" THEN "inactive" ELSE recorder
    /\ IF Ignored(size, wsState)
       THEN UNCHANGED <<outbound, bufferedAmount, dropped>>
       ELSE IF OverLimit(bufferedAmount)
            THEN /\ dropped' = dropped \cup {frameNo + 1}
                 /\ UNCHANGED <<outbound, bufferedAmount>>
            ELSE /\ outbound' = Append(outbound, Frame(frameNo + 1))
                 /\ bufferedAmount' = bufferedAmount + size
                 /\ UNCHANGED dropped
    /\ UNCHANGED <<status, statusRef, startPc, wsState, readySeen>>
    /\ UNCHANGED sessionVars
    /\ UNCHANGED <<workerVars, pageVars, bridgeVars, chunkVars, dbVars,
                   crashVars>>

\* The network takes data out of the send buffer.
BufferDrain(to) ==
    /\ wsState = "open"
    /\ to < bufferedAmount
    /\ bufferedAmount' = to
    /\ UNCHANGED <<status, statusRef, startPc, wsState, readySeen, outbound,
                   recorder, frameNo, dropped>>
    /\ UNCHANGED sessionVars
    /\ UNCHANGED <<workerVars, pageVars, bridgeVars, chunkVars, dbVars,
                   crashVars>>

\* The close listener, which exists once the handshake is over: if
\* statusRef.current is live it sets the error and the error status and
\* calls cleanup().
CloseListener ==
    IF startPc = "done" /\ statusRef = "live"
    THEN /\ error' = LostText
         /\ status' = "error"
         /\ timer' = FALSE
         /\ recorder' = CleanedRecorder
         /\ tracks' = CleanedTracks
         /\ wsRef' = FALSE
    ELSE UNCHANGED <<error, status, timer, recorder, tracks, wsRef>>

\* The relay closes the socket: the close event.
WsClose ==
    /\ wsState = "open"
    /\ wsState' = "closed"
    /\ CloseListener
    /\ UNCHANGED <<statusRef, startPc, readySeen, outbound, bufferedAmount,
                   frameNo, dropped, stopPc, log, requests, closing>>
    /\ UNCHANGED <<workerVars, pageVars, bridgeVars, chunkVars, dbVars,
                   crashVars>>

\* The close event of a socket that stopRecording closed.
CloseEvent ==
    /\ closing
    /\ closing' = FALSE
    /\ CloseListener
    /\ UNCHANGED <<statusRef, startPc, wsState, readySeen, outbound,
                   bufferedAmount, frameNo, dropped, stopPc, log, requests>>
    /\ UNCHANGED <<workerVars, pageVars, bridgeVars, chunkVars, dbVars,
                   crashVars>>

\* Faulty variant of AwaitsStop: stopRecording never waits for the
\* recorder's stop event.
AwaitsNever(rec) == rec # rec

\* if (mediaRecorderRef.current?.state === "recording"): stopRecording
\* calls stop() and awaits the stop event.
AwaitsStop(rec) == rec = "recording"

\* The call of stopRecording a new invocation gets: the first that has
\* not begun (0 when there is none left).
FreeStop ==
    IF \E k \in Stops : stopPc[k] = "idle"
    THEN CHOOSE k \in Stops :
            stopPc[k] = "idle" /\ \A j \in Stops : j < k => stopPc[j] # "idle"
    ELSE 0

\* stopRecording up to its first await: the timer is cleared,
\* setStatus("stopping"), and either the recorder is stopped and its stop
\* event awaited, or the 200 ms pause begins.
BeginStop ==
    /\ FreeStop \in Stops
    /\ timer' = FALSE
    /\ status' = "stopping"
    /\ recorder' = CleanedRecorder
    /\ stopPc' = [stopPc EXCEPT ![FreeStop] =
                    IF AwaitsStop(recorder) THEN "stopWait" ELSE "pause"]

\* The stop button, which is rendered while the status is live.
StopRecording ==
    /\ status = "live"
    /\ BeginStop
    /\ UNCHANGED <<statusRef, startPc, wsState, readySeen, outbound,
                   bufferedAmount, frameNo, dropped>>
    /\ UNCHANGED <<tracks, error, log, requests, wsRef, closing>>
    /\ UNCHANGED <<workerVars, pageVars, bridgeVars, chunkVars, dbVars,
                   crashVars>>

\* The ended event of the capture's video track (the user ends the
\* sharing in the browser's own UI, or the source goes away): with
\* statusRef.current live the listener calls stopRecording(), otherwise
\* cleanup() and setStatus("idle").  track.stop() fires no such event.
TrackEnded ==
    /\ tracks = "running"
    /\ tracks' = "ended"
    /\ IF statusRef = "live"
       THEN /\ BeginStop
            /\ UNCHANGED <<wsState, wsRef>>
       ELSE /\ timer' = FALSE
            /\ recorder' = CleanedRecorder
            /\ wsState' = CleanedSocket
            /\ wsRef' = FALSE
            /\ status' = "idle"
            /\ UNCHANGED stopPc
    /\ UNCHANGED <<statusRef, startPc, readySeen, outbound, bufferedAmount,
                   frameNo, dropped>>
    /\ UNCHANGED <<error, log, requests, closing>>
    /\ UNCHANGED <<workerVars, pageVars, bridgeVars, chunkVars, dbVars,
                   crashVars>>

\* The stop event of the recorder, after its last dataavailable event: the
\* awaited promise resolves and the 200 ms pause begins.
RecorderStopped(k) ==
    /\ stopPc[k] = "stopWait"
    /\ recorder = "inactive"
    /\ stopPc' = [stopPc EXCEPT ![k] = "pause"]
    /\ log' = Append(log, "stopped")
    /\ UNCHANGED <<status, statusRef, startPc, wsState, readySeen, outbound,
                   bufferedAmount, recorder, frameNo, dropped>>
    /\ UNCHANGED <<tracks, timer, error, requests, wsRef, closing>>
    /\ UNCHANGED <<workerVars, pageVars, bridgeVars, chunkVars, dbVars,
                   crashVars>>

\* The rest of stopRecording once the socket is dealt with: the tracks are
\* stopped and DELETE /api/live-stream is sent for the stream.
TracksAndFinish(k, sofar) ==
    /\ tracks' = CleanedTracks
    /\ requests' = [requests EXCEPT !.finish = @ + 1]
    /\ log' = sofar \o <<"tracks", "finish">>
    /\ stopPc' = [stopPc EXCEPT ![k] = "finish"]

\* wsRef.current.close(1000, "Stream ended"); wsRef.current = null; then
\* the tracks and the DELETE.
CloseAndFinish(k, sofar) ==
    /\ wsState' = "closed"
    /\ closing' = (wsState = "open")
    /\ wsRef' = FALSE
    /\ TracksAndFinish(k, sofar)

\* waitForBufferDrain resolves: the buffer is empty, the socket is no
\* longer open, or 8 s have passed.
Drained(timeout) == bufferedAmount = 0 \/ wsState # "open" \/ timeout

\* The 200 ms pause is over.  An open socket: waitForBufferDrain is
\* called, and with an empty buffer it resolves at its first check and the
\* socket is closed in the same task; otherwise it polls.  A socket that
\* is not open: stopRecording goes on to the tracks and the DELETE.
PauseDone(k) ==
    /\ stopPc[k] = "pause"
    /\ IF wsRef /\ wsState = "open"
       THEN IF Drained(FALSE)
            THEN CloseAndFinish(k, log \o <<"paused", "drained", "closed">>)
            ELSE /\ stopPc' = [stopPc EXCEPT ![k] = "drain"]
                 /\ log' = Append(log, "paused")
                 /\ UNCHANGED <<tracks, requests, wsState, wsRef, closing>>
       ELSE /\ TracksAndFinish(k, Append(log, "paused"))
            /\ UNCHANGED <<wsState, wsRef, closing>>
    /\ UNCHANGED <<status, statusRef, startPc, readySeen, outbound,
                   bufferedAmount, recorder, frameNo, dropped>>
    /\ UNCHANGED <<timer, error>>
    /\ UNCHANGED <<workerVars, pageVars, bridgeVars, chunkVars, dbVars,
                   crashVars>>

\* waitForBufferDrain resolved at a later check: the close, the tracks,
\* the DELETE.  With wsRef.current null by then (cleanup or
\* another call of stopRecording ran during the wait) the close throws
\* and stopRecording ends there.
DrainDone(k, timeout) ==
    /\ stopPc[k] = "drain"
    /\ Drained(timeout)
    /\ IF wsRef
       THEN CloseAndFinish(k, log \o <<"drained", "closed">>)
       ELSE /\ stopPc' = [stopPc EXCEPT ![k] = "threw"]
            /\ log' = Append(log, "drained")
            /\ UNCHANGED <<wsState, wsRef, tracks, requests, closing>>
    /\ UNCHANGED <<status, statusRef, startPc, readySeen, outbound,
                   bufferedAmount, recorder, frameNo, dropped>>
    /\ UNCHANGED <<timer, error>>
    /\ UNCHANGED <<workerVars, pageVars, bridgeVars, chunkVars, dbVars,
                   crashVars>>

\* DELETE /api/live-stream settled (a failure is caught and logged):
\* setResult, setStatus("complete"), onUploadComplete(finalResult).
FinishDone(k) ==
    /\ stopPc[k] = "finish"
    /\ stopPc' = [stopPc EXCEPT ![k] = "done"]
    /\ status' = "complete"
    /\ requests' = [requests EXCEPT !.complete = @ + 1]
    /\ UNCHANGED <<statusRef, startPc, wsState, readySeen, outbound,
                   bufferedAmount, recorder, frameNo, dropped>>
    /\ UNCHANGED <<tracks, timer, error, log, wsRef, closing>>
    /\ UNCHANGED <<workerVars, pageVars, bridgeVars, chunkVars, dbVars,
                   crashVars>>

\* ------------------------------------------- live progressive delivery
\* The chunked upload driver of the live path, as section 4.4 of the
\* specification gives its algorithm.

\* The alignment boundary (256 KiB) of the remote storage backend.
CHUNK_ALIGN == 262144

\* The attempts one chunk gets.
MAX_ATTEMPTS == 3

\* The sizes of the fragments the capturer hands over, in bytes.
FragmentSizes == {0, CHUNK_ALIGN, 600000}

\* How a chunk PUT settles: success, 308 (incomplete, continue), another
\* status, a network error.
PutOutcomes == {"ok", "incomplete", "status500", "network"}

\* A pending chunk: its bytes (by their number) and the is-final flag.
Chunk(size, final) == [size |-> size, final |-> final]

\* Faulty variant of Aligned: the whole buffer goes out as one chunk.
WholeBuffer(bytes) == IF bytes >= CHUNK_ALIGN THEN <<Chunk(bytes, FALSE)>>
                      ELSE <<>>

\* The chunks cut from the buffer once it has reached the boundary: one of
\* CHUNK_ALIGN bytes for each whole boundary in it.
Aligned(bytes) == [i \in 1..(bytes \div CHUNK_ALIGN) |->
                        Chunk(CHUNK_ALIGN, FALSE)]

\* What stays in the buffer after the chunks are cut.
Retained(bytes, chunks) ==
    IF chunks = <<>> THEN bytes
    ELSE bytes - Len(chunks) * chunks[1].size

\* Faulty variant of LoopIdle: every enqueue starts a delivery loop.
LoopIdleAlways(n) == n >= 0

\* if a delivery loop is not already running, start one
LoopIdle(n) == n = 0

\* A fragment of the capturer arrives; the last one ends the capture.
\* The buffer is cut at the boundary, the last fragment makes what is left
\* the final chunk (which may be empty); after queuing, a delivery loop is
\* started if none is running.
Fragment(size, last) ==
    /\ ~finalSeen
    /\ ~sessionFailed
    /\ Len(issued) + Len(pending) < MaxChunks
    /\ LET all == buffered + size
           cut == Aligned(all)
           rest == Retained(all, cut)
           queued == IF last THEN Append(cut, Chunk(rest, TRUE)) ELSE cut
       IN  /\ buffered' = IF last THEN 0 ELSE rest
           /\ pending' = pending \o queued
           /\ loops' = IF queued # <<>> /\ LoopIdle(loops) THEN loops + 1
                        ELSE loops
    /\ totalBytes' = totalBytes + size
    /\ finalSeen' = last
    /\ UNCHANGED <<uploadedBytes, inFlight, issued, sessionFailed, deferred>>
    /\ UNCHANGED <<workerVars, pageVars, bridgeVars, relayVars, dbVars,
                   crashVars>>

\* Faulty variant of ChunkEnd: the end is one past the last byte.
ChunkEndExclusive(start, size) == start + size

\* end = start + chunkSize - 1
ChunkEnd(start, size) == start + size - 1

\* The PUT of a chunk: its range, the total of the Content-Range header
\* (-1 for *, the total size on the final chunk) and the attempt.
ChunkPut(chunk, attempt) ==
    [start |-> uploadedBytes,
     end |-> ChunkEnd(uploadedBytes, chunk.size),
     size |-> chunk.size,
     final |-> chunk.final,
     total |-> IF chunk.final THEN uploadedBytes + chunk.size ELSE -1,
     attempt |-> attempt]

\* A delivery loop that is not waiting for a PUT takes the head of the
\* FIFO and issues its PUT.
LoopTake ==
    /\ Cardinality(inFlight) < loops
    /\ ~sessionFailed
    /\ pending # <<>>
    /\ LET put == ChunkPut(Head(pending), 1)
       IN  /\ inFlight' = inFlight \cup {put}
           /\ issued' = Append(issued, put)
    /\ pending' = Tail(pending)
    /\ UNCHANGED <<buffered, totalBytes, uploadedBytes, loops, sessionFailed,
                   deferred, finalSeen>>
    /\ UNCHANGED <<workerVars, pageVars, bridgeVars, relayVars, dbVars,
                   crashVars>>

\* success, or the protocol's "incomplete, continue" status code (308)
ChunkSucceeded(outcome) == outcome \in {"ok", "incomplete"}

\* Faulty variant of CanRetry: a chunk gets one attempt more.
CanRetryOnceMore(attempt) == attempt < MAX_ATTEMPTS + 1

\* up to 3 attempts
CanRetry(attempt) == attempt < MAX_ATTEMPTS

\* A chunk PUT settles.  Success confirms its bytes.  A failure is
\* followed, after the pause of 1 s, by the next attempt, and after the
\* last attempt the chunk and the session are permanently failed and the
\* buffered payload is handed to deferred delivery.
PutDone(put, outcome) ==
    /\ put \in inFlight
    /\ IF ChunkSucceeded(outcome)
       THEN /\ uploadedBytes' = uploadedBytes + put.size
            /\ inFlight' = inFlight \ {put}
            /\ UNCHANGED <<issued, sessionFailed, deferred, loops, pending>>
       ELSE IF CanRetry(put.attempt) /\ ~sessionFailed
            THEN LET again == [put EXCEPT !.attempt = @ + 1]
                 IN  /\ inFlight' = (inFlight \ {put}) \cup {again}
                     /\ issued' = Append(issued, again)
                     /\ UNCHANGED <<uploadedBytes, sessionFailed, deferred,
                                    loops, pending>>
            ELSE /\ inFlight' = inFlight \ {put}
                 /\ sessionFailed' = TRUE
                 /\ deferred' = IF sessionFailed THEN deferred
                                 ELSE totalBytes
                 /\ loops' = loops - 1
                 /\ UNCHANGED <<uploadedBytes, issued, pending>>
    /\ UNCHANGED <<buffered, totalBytes, finalSeen>>
    /\ UNCHANGED <<workerVars, pageVars, bridgeVars, relayVars, dbVars,
                   crashVars>>

\* A delivery loop finds the FIFO empty, or the session failed, and ends.
LoopEnd ==
    /\ Cardinality(inFlight) < loops
    /\ pending = <<>> \/ sessionFailed
    /\ loops' = loops - 1
    /\ UNCHANGED <<buffered, totalBytes, pending, uploadedBytes, inFlight,
                   issued, sessionFailed, deferred, finalSeen>>
    /\ UNCHANGED <<workerVars, pageVars, bridgeVars, relayVars, dbVars,
                   crashVars>>

\* ------------------------------------------------------ worker: triggers
\* processPendingUploads() is called in immediate succession of another
\* call when the previous handler invocation is a processPendingUploads
\* that has not yet got past its first await.
Immediate ==
    /\ FreeSlot > 1
    /\ tasks[FreeSlot - 1].fn = "processPendingUploads"
    /\ tasks[FreeSlot - 1].pc = "scan"

\* processPendingUploads() up to its first await (getPendingUploads).
StartDrain ==
    /\ FreeSlot \in TaskIds
    /\ tasks' = [tasks EXCEPT ![FreeSlot] =
                    [IdleTask EXCEPT !.fn = "processPendingUploads",
                                     !.pc = "scan", !.imm = Immediate]]

\* message listener, case "START_UPLOAD": if (data?.id) await getRecording.
OnStartUpload(id) ==
    /\ FreeSlot \in TaskIds
    /\ tasks' = [tasks EXCEPT ![FreeSlot] =
                    [IdleTask EXCEPT !.fn = "startUpload",
                                     !.pc = "lookup", !.rec = id]]
    /\ UNCHANGED <<store, nextId, activated, notes, inbox, faults>>
    /\ UNCHANGED outside

\* message listener, case "PROCESS_PENDING".
OnProcessPending ==
    /\ StartDrain
    /\ UNCHANGED <<store, nextId, activated, notes, inbox, faults>>
    /\ UNCHANGED outside

\* activate listener: clients.claim().then(processPendingUploads).  The
\* event fires once in the life of the worker.
OnActivate ==
    /\ activated = 0
    /\ activated' = FreeSlot
    /\ StartDrain
    /\ UNCHANGED <<store, nextId, notes, inbox, faults>>
    /\ UNCHANGED outside

\* sync listener: only the tag "upload-video" drains.
OnSync(tag) ==
    /\ IF tag = "upload-video"
       THEN StartDrain
       ELSE UNCHANGED tasks
    /\ UNCHANGED <<store, nextId, activated, notes, inbox, faults>>
    /\ UNCHANGED outside

\* The browser terminates the worker while handlers are running: their
\* invocations end where they are, a PUT in flight is abandoned and the
\* promises not yet resolved are dropped.  The store is on disk.
Terminate ==
    /\ crashes < MaxCrashes
    /\ \E t \in TaskIds : tasks[t].pc \notin {"idle", "done"}
    /\ crashes' = crashes + 1
    /\ tasks' = [t \in TaskIds |->
                    IF tasks[t].pc = "idle" THEN tasks[t]
                    ELSE [tasks[t] EXCEPT !.pc = "done"]]
    /\ notes' = {}
    /\ UNCHANGED <<store, nextId, activated, inbox, faults>>
    /\ UNCHANGED <<pageVars, bridgeVars, relayVars, chunkVars, dbVars>>

\* The sync event that starts the worker again after a termination.
Resync == crashes > 0 /\ OnSync("upload-video")

\* --------------------------------------------------- worker: uploadBlob
\* uploadBlob(recording) called: runs to the getRecording of
\* updateStatus(id, "uploading").
CallUpload(tk, id) ==
    [tk EXCEPT !.pc = "usRead", !.rec = id, !.resp = "none", !.err = "none"]

\* Faulty variant of LoopNext: a failed delivery ends the drain, as it
\* would if uploadBlob let the error escape into processPendingUploads.
LoopNextStopOnFailure(tk) ==
    IF tk.todo = <<>> \/ tk.err # "none"
    THEN [tk EXCEPT !.pc = "done", !.resp = "none", !.err = "none"]
    ELSE [CallUpload(tk, Head(tk.todo)) EXCEPT !.todo = Tail(tk.todo)]

\* uploadBlob returned (true or false): the for loop of
\* processPendingUploads calls it for the next scanned record, whatever
\* the result; a START_UPLOAD task has nothing left.
LoopNext(tk) ==
    IF tk.todo = <<>>
    THEN [tk EXCEPT !.pc = "done", !.resp = "none", !.err = "none"]
    ELSE [CallUpload(tk, Head(tk.todo)) EXCEPT !.todo = Tail(tk.todo)]

\* A store request rejected inside uploadBlob's try block: control goes to
\* the catch block, which starts updateStatus(id, "failed").
ToCatch(tk, why) == [tk EXCEPT !.pc = "failRead", !.err = why]

\* A store request rejected inside the catch block: uploadBlob itself
\* rejects.  processPendingUploads catches that and ends its loop; the
\* START_UPLOAD handler does not await it.
Rejected(tk) ==
    [tk EXCEPT !.pc = "done", !.fault = TRUE, !.resp = "none", !.err = "none"]

\* fetch(uploadUrl, {method: "PUT", body: blob}) issued.
IssuePut(tk) == [tk EXCEPT !.pc = "fetch", !.puts = Append(tk.puts, tk.rec)]

CompleteNote(t, id) ==
    [type |-> "UPLOAD_COMPLETE", id |-> id, uploadId |-> UploadIdOf(id),
     error |-> "none", task |-> t]

FailedNote(t, id, why) ==
    [type |-> "UPLOAD_FAILED", id |-> id, uploadId |-> 0,
     error |-> why, task |-> t]

\* recording.status = status; store.put(recording)
PutStatus(rec, newStatus) == [rec EXCEPT !.status = newStatus]

\* processPendingUploads: getPendingUploads resolved (or rejected).
Scan(t) ==
    /\ tasks[t].pc = "scan"
    /\ \/ /\ LET list == getPendingUploads
                 tk == [tasks[t] EXCEPT !.scanned = list, !.todo = list]
             IN  tasks' = [tasks EXCEPT ![t] = LoopNext(tk)]
          /\ UNCHANGED faults
       \/ /\ CanFault
          /\ faults' = faults + 1
          /\ tasks' = [tasks EXCEPT ![t] = Rejected(tasks[t])]
    /\ UNCHANGED <<store, nextId, activated, notes, inbox>>
    /\ UNCHANGED outside

\* Faulty variant of Lookup: uploadBlob is called whether or not
\* getRecording found the record.
LookupAlways(t) ==
    /\ tasks[t].pc = "lookup"
    /\ tasks' = [tasks EXCEPT ![t] = CallUpload(tasks[t], tasks[t].rec)]
    /\ UNCHANGED <<store, nextId, activated, notes, inbox, faults>>
    /\ UNCHANGED outside

\* START_UPLOAD: getRecording(data.id) resolved (or rejected).
Lookup(t) ==
    /\ tasks[t].pc = "lookup"
    /\ \/ /\ tasks' = [tasks EXCEPT ![t] =
                IF Present(tasks[t].rec)
                THEN CallUpload(tasks[t], tasks[t].rec)
                ELSE [tasks[t] EXCEPT !.pc = "done"]]
          /\ UNCHANGED faults
       \/ /\ CanFault
          /\ faults' = faults + 1
          /\ tasks' = [tasks EXCEPT ![t] = Rejected(tasks[t])]
    /\ UNCHANGED <<store, nextId, activated, notes, inbox>>
    /\ UNCHANGED outside

\* updateStatus(id, "uploading"): getRecording resolved.  No record: the
\* update returns and the PUT is issued at once.
UsRead(t) ==
    /\ tasks[t].pc = "usRead"
    /\ \/ /\ tasks' = [tasks EXCEPT ![t] =
                IF Present(tasks[t].rec)
                THEN [tasks[t] EXCEPT !.pc = "usWrite",
                                      !.snap = store[tasks[t].rec]]
                ELSE IssuePut(tasks[t])]
          /\ UNCHANGED faults
       \/ /\ CanFault
          /\ faults' = faults + 1
          /\ tasks' = [tasks EXCEPT ![t] =
                [ToCatch(tasks[t], "storage") EXCEPT !.fault = TRUE]]
    /\ UNCHANGED <<store, nextId, activated, notes, inbox>>
    /\ UNCHANGED outside

\* updateStatus(id, "uploading"): store.put(recording) done, then the PUT.
UsWrite(t) ==
    /\ tasks[t].pc = "usWrite"
    /\ \/ /\ store' = [store EXCEPT ![tasks[t].rec] =
                          PutStatus(tasks[t].snap, "uploading")]
          /\ tasks' = [tasks EXCEPT ![t] =
                          IssuePut([tasks[t] EXCEPT !.snap = NoRec])]
          /\ UNCHANGED faults
       \/ /\ CanFault
          /\ faults' = faults + 1
          /\ tasks' = [tasks EXCEPT ![t] =
                [ToCatch(tasks[t], "storage") EXCEPT !.fault = TRUE,
                                                     !.snap = NoRec]]
          /\ UNCHANGED store
    /\ UNCHANGED <<nextId, activated, notes, inbox>>
    /\ UNCHANGED outside

\* Faulty variant of AfterFetch: the response.ok test is missing, so every
\* response that arrives counts as a success.
AfterFetchNoOkCheck(tk, outcome) ==
    IF outcome \in {"ok", "status"}
    THEN [tk EXCEPT !.pc = "del"]
    ELSE [tk EXCEPT !.pc = "failRead", !.err = outcome]

\* if (!response.ok) throw new Error(...): only an ok response goes on to
\* deleteRecording; a non-ok status and a rejected fetch go to the catch.
AfterFetch(tk, outcome) ==
    IF outcome = "ok"
    THEN [tk EXCEPT !.pc = "del"]
    ELSE ToCatch(tk, outcome)

\* The PUT settled: response.ok, a non-ok status, or a rejection.
FetchDone(t, outcome) ==
    /\ tasks[t].pc = "fetch"
    /\ tasks' = [tasks EXCEPT ![t] =
                    AfterFetch([tasks[t] EXCEPT !.resp = outcome], outcome)]
    /\ UNCHANGED <<store, nextId, activated, notes, inbox, faults>>
    /\ UNCHANGED outside

\* Faulty variant of Del: the delivered record is kept and marked complete.
DelMarksComplete(t) ==
    /\ tasks[t].pc = "del"
    /\ store' = [store EXCEPT ![tasks[t].rec] = PutStatus(@, "complete")]
    /\ notes' = notes \cup {CompleteNote(t, tasks[t].rec)}
    /\ tasks' = [tasks EXCEPT ![t] = LoopNext(tasks[t])]
    /\ UNCHANGED <<nextId, activated, inbox, faults>>
    /\ UNCHANGED outside

\* deleteRecording(id) done; clients.matchAll() called for the
\* UPLOAD_COMPLETE notification; return true.
Del(t) ==
    /\ tasks[t].pc = "del"
    /\ \/ /\ store' = [store EXCEPT ![tasks[t].rec] = NoRec]
          /\ notes' = notes \cup {CompleteNote(t, tasks[t].rec)}
          /\ tasks' = [tasks EXCEPT ![t] = LoopNext(tasks[t])]
          /\ UNCHANGED faults
       \/ /\ CanFault
          /\ faults' = faults + 1
          /\ tasks' = [tasks EXCEPT ![t] =
                [ToCatch(tasks[t], "storage") EXCEPT !.fault = TRUE]]
          /\ UNCHANGED <<store, notes>>
    /\ UNCHANGED <<nextId, activated, inbox>>
    /\ UNCHANGED outside

\* catch: updateStatus(id, "failed"): getRecording resolved.  No record:
\* the update returns, matchAll() is called for UPLOAD_FAILED, return false.
FailRead(t) ==
    /\ tasks[t].pc = "failRead"
    /\ \/ /\ IF Present(tasks[t].rec)
             THEN /\ tasks' = [tasks EXCEPT ![t] =
                        [tasks[t] EXCEPT !.pc = "failWrite",
                                         !.snap = store[tasks[t].rec]]]
                  /\ UNCHANGED notes
             ELSE /\ tasks' = [tasks EXCEPT ![t] = LoopNext(tasks[t])]
                  /\ notes' = notes \cup
                        {FailedNote(t, tasks[t].rec, tasks[t].err)}
          /\ UNCHANGED faults
       \/ /\ CanFault
          /\ faults' = faults + 1
          /\ tasks' = [tasks EXCEPT ![t] = Rejected(tasks[t])]
          /\ UNCHANGED notes
    /\ UNCHANGED <<store, nextId, activated, inbox>>
    /\ UNCHANGED outside

\* catch: updateStatus(id, "failed"): store.put done; matchAll() called
\* for UPLOAD_FAILED; return false.
FailWrite(t) ==
    /\ tasks[t].pc = "failWrite"
    /\ \/ /\ store' = [store EXCEPT ![tasks[t].rec] =
                          PutStatus(tasks[t].snap, "failed")]
          /\ notes' = notes \cup {FailedNote(t, tasks[t].rec, tasks[t].err)}
          /\ tasks' = [tasks EXCEPT ![t] =
                          LoopNext([tasks[t] EXCEPT !.snap = NoRec])]
          /\ UNCHANGED faults
       \/ /\ CanFault
          /\ faults' = faults + 1
          /\ tasks' = [tasks EXCEPT ![t] =
                          Rejected([tasks[t] EXCEPT !.snap = NoRec])]
          /\ UNCHANGED <<store, notes>>
    /\ UNCHANGED <<nextId, activated, inbox>>
    /\ UNCHANGED outside

\* clients.matchAll() resolved: client.postMessage to every client.
Notify(n) ==
    /\ n \in notes
    /\ notes' = notes \ {n}
    /\ inbox' = [p \in Pages |->
                    IF p \in clients
                    THEN [inbox[p] EXCEPT ![<<n.type, n.id>>] = @ + 1]
                    ELSE inbox[p]]
    /\ UNCHANGED <<store, nextId, tasks, activated, faults>>
    /\ UNCHANGED outside

\* ------------------------------------------------------------ behaviours
PageStep ==
    \/ PageSave
    \/ \E id \in Ids : PageDiscard(id)

TriggerStep ==
    \/ \E id \in Ids : OnStartUpload(id)
    \/ OnProcessPending
    \/ OnActivate
    \/ \E tag \in SyncTags : OnSync(tag)

\* The steps of processPendingUploads and uploadBlob.
UploadStep ==
    \/ \E t \in TaskIds : Scan(t)
    \/ \E t \in TaskIds : UsRead(t)
    \/ \E t \in TaskIds : UsWrite(t)
    \/ \E t \in TaskIds, o \in FetchOutcomes : FetchDone(t, o)
    \/ \E t \in TaskIds : Del(t)
    \/ \E t \in TaskIds : FailRead(t)
    \/ \E t \in TaskIds : FailWrite(t)
    \/ \E n \in notes : Notify(n)

TaskStep ==
    \/ \E t \in TaskIds : Lookup(t)
    \/ UploadStep

\* The worker, its triggers and the pages' store operations.
Next == PageStep \/ TriggerStep \/ TaskStep

Spec == Init /\ [][Next]_vars

\* The worker on its own: pages only save recordings.
NextWorker == PageSave \/ TriggerStep \/ TaskStep

SpecWorker == Init /\ [][NextWorker]_vars

\* One START_UPLOAD message, for any id, while the pages save and discard
\* recordings.
StartOne(id) == FreeSlot = 1 /\ OnStartUpload(id)

NextStart ==
    \/ PageStep
    \/ \E id \in Ids : StartOne(id)
    \/ \E t \in TaskIds : Lookup(t)
    \/ \E t \in TaskIds : UsRead(t)
    \/ \E t \in TaskIds : UsWrite(t)
    \/ \E t \in TaskIds, o \in FetchOutcomes : FetchDone(t, o)
    \/ \E t \in TaskIds : Del(t)
    \/ \E t \in TaskIds : FailRead(t)
    \/ \E t \in TaskIds : FailWrite(t)
    \/ \E n \in notes : Notify(n)

SpecStart == Init /\ [][NextStart]_vars

\* The worker driven by PROCESS_PENDING messages alone.
NextPending == PageSave \/ OnProcessPending \/ UploadStep

SpecPending == Init /\ [][NextPending]_vars

\* The drain the activation starts, with the pages saving and dropping
\* recordings meanwhile and no other trigger.
NextActivation == PageStep \/ OnActivate \/ UploadStep

SpecActivation == Init /\ [][NextActivation]_vars

\* The pages' store wrapper on its own, the clock advancing.
NextStore ==
    \/ Tick
    \/ PageSave
    \/ \E id \in Ids : PageSaveCollide(id)
    \/ \E id \in Ids : PageDiscard(id)
    \/ \E id \in Ids, st \in StatusArgs, inc \in BOOLEAN :
          PageUsRead(id, st, inc)
    \/ PageUsWrite
    \/ PageCleanup

SpecStore == Init /\ [][NextStore]_vars

\* Saving, dropping and purging records, the clock advancing.
NextSave ==
    \/ Tick
    \/ PageSave
    \/ \E id \in Ids : PageSaveCollide(id)
    \/ \E id \in Ids : PageDiscard(id)
    \/ PageCleanup

SpecSave == Init /\ [][NextSave]_vars

\* Registration and lifecycle of the worker as the bridge sees them.
Lifecycle ==
    \/ \E to \in SwStates : SwAdvance(to)
    \/ RegisterDone
    \/ UpdateFound

\* The bridge: registration, commands, sync requests and notifications.
NextBridge ==
    \/ Lifecycle
    \/ \E m \in Commands : postMessage(m)
    \/ requestBackgroundSync
    \/ \E d \in Inbound : handleMessage(d)

SpecBridge == Init /\ [][NextBridge]_vars

\* The bridge posting commands.
NextPost ==
    \/ Lifecycle
    \/ \E m \in Commands : postMessage(m)

SpecPost == Init /\ [][NextPost]_vars

\* One live session: start, handshake, frames, the relay closing.
NextRelay ==
    \/ StartRecording
    \/ SyncStatusRef
    \/ \E granted \in BOOLEAN : CaptureDone(granted)
    \/ \E ok \in BOOLEAN : CreateDone(ok)
    \/ WsOpen
    \/ HandshakeFails
    \/ \E type \in RelayTypes : RelayMessage(type)
    \/ \E size \in FrameSizes : DataAvailable(size)
    \/ \E to \in DrainLevels : BufferDrain(to)
    \/ WsClose
    \/ CloseEvent
    \/ StopRecording
    \/ \E k \in Stops : RecorderStopped(k)
    \/ \E k \in Stops : PauseDone(k)
    \/ \E k \in Stops, timeout \in BOOLEAN : DrainDone(k, timeout)
    \/ \E k \in Stops : FinishDone(k)

SpecRelay == Init /\ [][NextRelay]_vars

\* One live session in which the capture's track may also end by itself.
NextSession == NextRelay \/ TrackEnded

SpecSession == Init /\ [][NextSession]_vars

\* The timers and promises stopRecording awaits do settle: the recorder
\* delivers its last chunk and its stop event, the 200 ms pause and the
\* drain wait (8 s at most) end, the DELETE settles; and the effect that
\* copies the status runs.
SpecSessionFair ==
    /\ SpecSession
    /\ WF_vars(SyncStatusRef)
    /\ WF_vars(\E size \in FrameSizes : DataAvailable(size))
    /\ WF_vars(\E k \in Stops : RecorderStopped(k))
    /\ WF_vars(\E k \in Stops : PauseDone(k))
    /\ WF_vars(\E k \in Stops, timeout \in BOOLEAN : DrainDone(k, timeout))
    /\ WF_vars(\E k \in Stops : FinishDone(k))

\* The handshake timer (setTimeout, RELAY_HANDSHAKE_TIMEOUT_MS) fires if
\* the handshake promise is still pending, and the promises of
\* getDisplayMedia and of the POST settle.
SpecRelayFair ==
    /\ SpecRelay
    /\ WF_vars(HandshakeFails)
    /\ WF_vars(\E granted \in BOOLEAN : CaptureDone(granted))
    /\ WF_vars(\E ok \in BOOLEAN : CreateDone(ok))

\* The chunked upload driver of one live session.
NextChunks ==
    \/ \E size \in FragmentSizes, last \in BOOLEAN : Fragment(size, last)
    \/ LoopTake
    \/ \E put \in inFlight, outcome \in PutOutcomes : PutDone(put, outcome)
    \/ LoopEnd

SpecChunks == Init /\ [][NextChunks]_vars

\* The calls of getDB of one UploadService instance.
NextDb ==
    \/ \E c \in DbCalls : GetDB(c)
    \/ \E ok \in BOOLEAN : OpenDone(ok)
    \/ \E c \in DbCalls : GetDBResume(c)

SpecDb == Init /\ [][NextDb]_vars

\* The worker from its activation on, terminated by the browser at any
\* point and started again by a sync event.  The steps of the handlers are
\* taken as long as the worker lives, and the sync event comes.
NextCrash == PageSave \/ OnActivate \/ UploadStep \/ Terminate \/ Resync

SpecCrash ==
    /\ Init
    /\ [][NextCrash]_vars
    /\ WF_vars(OnActivate)
    /\ WF_vars(UploadStep)
    /\ WF_vars(Resync)

\* ------------------------------------------------------ claim vocabulary
COMPLETE == "UPLOAD_COMPLETE"

FAILED == "UPLOAD_FAILED"

\* The ids of a sequence.
Elems(q) == {q[i] : i \in DOMAIN q}

Occurrences(q, x) == Cardinality({i \in DOMAIN q : q[i] = x})

\* This step is the return of uploadBlob in task t (return true after the
\* delete, return false at the end of the catch block).
Returns(t) ==
    /\ tasks[t].pc \in {"del", "failRead", "failWrite"}
    /\ tasks'[t].pc \in {"usRead", "done"}
    /\ tasks'[t].fault = tasks[t].fault

\* This step is the resolution of getPendingUploads in task t.
Scans(t) ==
    /\ tasks[t].pc = "scan"
    /\ tasks'[t].pc # "scan"
    /\ ~tasks'[t].fault

\* ------------------------------------------------------------------- C1
\* The arrows of the status state machine.
StatusArrows ==
    {<<"pending", "uploading">>, <<"uploading", "failed">>,
     <<"uploading", "absent">>, <<"failed", "uploading">>}

AllowedChange(id) ==
    \/ store'[id].status = store[id].status
    \/ <<store[id].status, store'[id].status>> \in StatusArrows
    \/ /\ id = nextId
       /\ store[id].status = "absent"
       /\ store'[id].status = "pending"

\* C1: a record's status changes only along pending -> uploading,
\* uploading -> failed, uploading -> deleted and failed -> uploading; a
\* record appears as pending under a fresh id.  (Stated for the runs in
\* which no store request has been rejected.)
C1_StatusArrowsOnly ==
    [][faults' = 0 => \A id \in Ids : AllowedChange(id)]_vars

\* ------------------------------------------------------------------- C2
\* C2: absence wins over update: once record id has been deleted, no
\* updateStatus makes it present again.  (Ids are never reused, so a key
\* below nextId with no record is a deleted record.)
C2_AbsenceWins ==
    [][\A id \in Ids : (id < nextId /\ ~Present(id)) => store'[id] = NoRec]_vars

\* ------------------------------------------------------------------- C3
\* C3: two processPendingUploads invocations in immediate succession issue
\* at most one PUT per record between them.
C3_TwiceDeliversOnce ==
    \A t \in TaskIds :
        (t > 1 /\ tasks[t].imm) =>
            Elems(tasks[t].puts) \cap Elems(tasks[t - 1].puts) = {}

\* ------------------------------------------------------------------- C4
\* C4: the worker never has two delivery attempts for the same record in
\* flight at the same time.
C4_OneAttemptPerRecord ==
    \A t1, t2 \in TaskIds :
        (t1 # t2 /\ InFlight(t1) /\ InFlight(t2)) => tasks[t1].rec # tasks[t2].rec

\* ------------------------------------------------------------------- C5
\* C5: at every moment at most one delivery PUT of the worker is in flight.
C5_OnePutInFlight == Cardinality({t \in TaskIds : InFlight(t)}) <= 1

\* ------------------------------------------------------------------- C6
\* C6: whenever an UPLOAD_COMPLETE notification for record id is posted to
\* the pages, record id is absent from the store.
C6_DeletedWhenNotified ==
    [][\A n \in notes :
          (n \notin notes' /\ n.type = COMPLETE) => ~Present(n.id)]_vars

\* ------------------------------------------------------------------- C7
\* C7: after a successful delivery the record is not among the pending
\* records, and every page receives UPLOAD_COMPLETE for a record exactly
\* once: one per posting, and never a second one.
C7_CompleteExactlyOnce ==
    [][/\ \A t \in TaskIds :
            (Returns(t) /\ tasks[t].pc = "del") =>
                store'[tasks[t].rec].status # "pending"
       /\ \A n \in notes : \A p \in clients :
            (n \notin notes' /\ n.type = COMPLETE) =>
                /\ inbox'[p][<<COMPLETE, n.id>>] = inbox[p][<<COMPLETE, n.id>>] + 1
                /\ inbox'[p][<<COMPLETE, n.id>>] = 1]_vars

\* ------------------------------------------------------------------- C8
\* C8: a record with status failed is picked up again by the next
\* processPendingUploads: every scan includes the records that are failed
\* at that moment.  (Stated for the runs in which no store request has
\* been rejected.)
C8_FailedPickedUp ==
    [][\A t \in TaskIds :
          (Scans(t) /\ faults' = 0) =>
              \A id \in Ids :
                  store[id].status = "failed" => id \in Elems(tasks'[t].scanned)]_vars

\* ------------------------------------------------------------------- C9
\* The records a task has called uploadBlob for, in call order: without a
\* store fault every call reaches its PUT.
Started(tk) ==
    IF tk.pc \in {"usRead", "usWrite"} THEN Append(tk.puts, tk.rec) ELSE tk.puts

Increasing(q) == \A i, j \in DOMAIN q : i < j => q[i] < q[j]

C9_Order ==
    activated # 0 =>
        LET tk == tasks[activated]
        IN  (tk.pc # "scan" /\ ~tk.fault) =>
                /\ Increasing(tk.scanned)
                /\ Started(tk) \o tk.todo = tk.scanned
                /\ tk.pc = "done" => tk.puts = tk.scanned

C9_ScanAll ==
    \A t \in TaskIds :
        (Scans(t) /\ t = activated) =>
            Elems(tasks'[t].scanned) = {id \in Ids : store[id].status = "pending"}

OneOutcome(t, failedStatuses) ==
    LET id == tasks[t].rec
        new == notes' \ notes
    IN  /\ Occurrences(tasks[t].puts, id) = 1
        /\ Cardinality(new) = 1
        /\ \A n \in new :
              /\ n.id = id
              /\ IF tasks[t].resp = "ok"
                 THEN /\ n.type = COMPLETE
                      /\ n.uploadId = UploadIdOf(id)
                      /\ store'[id] = NoRec
                 ELSE /\ tasks[t].resp \in {"status", "network"}
                      /\ n.type = FAILED
                      /\ n.error = tasks[t].resp
                      /\ store'[id].status \in failedStatuses

\* A queued notification is posted once to every page.
PostedToAll ==
    \A n \in notes :
        n \notin notes' =>
            \A p \in clients :
                inbox'[p] = [inbox[p] EXCEPT ![<<n.type, n.id>>] = @ + 1]

C11_PurgeStrictlyOlder ==
    [][PageCleanup =>
          \A id \in Ids :
              store'[id] = IF Present(id) /\ store[id].createdAt < now - MaxAgeMs
                           THEN NoRec
                           ELSE store[id]]_vars

\* ------------------------------------------------------------------ C12
\* The delivery attempts the worker has made for record id: the PUTs its
\* tasks have issued.
AttemptsMade(id) ==
    Cardinality({ti \in TaskIds \X (1..(NumIds * MaxTasks + 1)) :
                    /\ ti[2] \in DOMAIN tasks[ti[1]].puts
                    /\ tasks[ti[1]].puts[ti[2]] = id})

\* C12: the retryCount of every record in the store equals the number of
\* delivery attempts made for it.
C12_RetryCountsAttempts ==
    \A id \in Ids : Present(id) => store[id].retryCount = AttemptsMade(id)

\* ------------------------------------------------------------------ C13
\* No record of the store has status complete.
NoCompleteRecord == \A id \in Ids : store[id].status # "complete"

\* A confirmed delivery (uploadBlob returning true) and the page's
\* markUploadComplete leave no record under the id.
DeliveryRemoves ==
    /\ \A t \in TaskIds :
          (Returns(t) /\ tasks[t].pc = "del") => store'[tasks[t].rec] = NoRec
    /\ \A id \in Ids : PageDiscard(id) => store'[id] = NoRec

SaveSettles == PageSave \/ \E id \in Ids : PageSaveCollide(id)

\* The effect of a save that resolved with id: one new record under an id
\* no record had, pending, retryCount 0, every other record as it was.
SavedOne(id) ==
    /\ ~Present(id)
    /\ store' = [store EXCEPT ![id] =
                    [status |-> "pending", retryCount |-> 0, createdAt |-> now]]
    /\ Cardinality({i \in Ids : store'[i] # NoRec}) =
          Cardinality({i \in Ids : store[i] # NoRec}) + 1

\* C14: a save adds exactly one new record under a fresh id, with status
\* pending and retryCount 0, and leaves every other record unchanged; a
\* save whose generated id is the id of an existing record fails and
\* changes nothing (so no id ever stands for two records).
C14_SaveAddsOne ==
    [][SaveSettles => IF saved' = -1 THEN store' = store ELSE SavedOne(saved')]_vars

\* A save has just failed on a colliding id, the store holding two records
\* saved at different times.
C14_Witness ==
    /\ saved = -1
    /\ Present(1) /\ Present(2)
    /\ store[1].createdAt < store[2].createdAt

\* ------------------------------------------------------------------ C15
\* C15: isReady is true only when the worker the bridge tracks is in the
\* activated state, never while it is installing or waiting.
C15_ReadyOnlyWhenActivated == isReady => swState = "activated"

\* ------------------------------------------------------------------ C16
\* This step is a call of the bridge's postMessage returning.
PostReturns == \E m \in Commands : postMessage(m)

C17_NoSyncIsSuccess ==
    [][(requestBackgroundSync /\ registration /\ syncSupported' = "no") =>
          (syncTags' = syncTags /\ syncRet' = "true")]_vars

\* ------------------------------------------------------------------ C18
\* This step is handleMessage handling a message event.
Handles == \E d \in Inbound : handleMessage(d)

\* The callback the claim expects for a message.
Expected(data) ==
    IF data.type = COMPLETE
    THEN <<[fn |-> "onUploadComplete", a |-> data.uploadId, b |-> ""]>>
    ELSE IF data.type = FAILED
         THEN <<[fn |-> "onUploadFailed", a |-> data.id, b |-> data.error]>>
         ELSE <<>>

\* C18: every UPLOAD_COMPLETE invokes onUploadComplete once with its
\* remote upload id, every UPLOAD_FAILED invokes onUploadFailed once with
\* its record id and error text, whatever the text, and a message of any
\* other type invokes no callback.
C18_EveryNoteDispatched ==
    [][Handles => called' = called \o Expected(lastEvent')]_vars

\* ------------------------------------------------------------------ C19
\* This step is a captured frame arriving while the connection is open.
FrameArrives(size) == DataAvailable(size) /\ size > 0 /\ wsState = "open"

\* C19: a frame arriving while the connection is open is sent exactly once
\* if the occupancy of the outbound buffer is at most 5 MiB at that moment
\* and is dropped if it is above; a frame is sent in the step of its own
\* arrival or never, so a dropped frame is not sent later and each decision
\* depends on the occupancy at that frame's arrival alone.
C19_Backpressure ==
    [][/\ \A size \in FrameSizes :
            FrameArrives(size) =>
                IF bufferedAmount <= 5 * 1024 * 1024
                THEN outbound' = Append(outbound, Frame(frameNo')) /\ dropped' = dropped
                ELSE outbound' = outbound /\ dropped' = dropped \cup {frameNo'}
       /\ \/ outbound' = outbound
          \/ outbound' = Append(outbound, HANDSHAKE)
          \/ frameNo' = frameNo + 1 /\ outbound' = Append(outbound, Frame(frameNo'))]_vars

\* A frame was dropped over a full buffer and the next one was sent, the
\* buffer having drained to the limit exactly.
C19_Witness ==
    \E k \in 2..MaxFrames :
        /\ (k - 1) \in dropped
        /\ outbound[Len(outbound)] = Frame(k)
        /\ bufferedAmount > WS_BUFFER_LIMIT

\* ------------------------------------------------------------------ C20
\* C20: the first message sent on the relay connection is the handshake,
\* and before the relay's ready message has arrived on the connection no
\* frame is sent, no recorder runs and the session is not live.
C20_HandshakeGates ==
    /\ outbound # <<>> => outbound[1] = HANDSHAKE
    /\ ~readySeen =>
          /\ \A i \in DOMAIN outbound : outbound[i] = HANDSHAKE
          /\ recorder = "none"
          /\ status # "live"

\* The session is live after the relay's ready and a frame has followed
\* the handshake on the connection.
C20_Witness ==
    /\ status = "live"
    /\ readySeen
    /\ Len(outbound) >= 2
    /\ outbound[1] = HANDSHAKE
    /\ outbound[2] = Frame(1)

\* The steps of stopRecording in the order of its code: the stop event of
\* the recorder, the 200 ms pause, the buffer drain wait, close(1000), the
\* tracks, DELETE /api/live-stream; and the same when the socket is no
\* longer open after the pause.
FullStop == <<"stopped", "paused", "drained", "closed", "tracks", "finish">>

ShortStop == <<"stopped", "paused", "tracks", "finish">>

IsPrefix(s, t) == Len(s) <= Len(t) /\ s = SubSeq(t, 1, Len(s))

C22_RelayLoss ==
    /\ [](requests.socket <= 1)
    /\ [][WsClose /\ status = "live"
            => /\ status' = "error"
               /\ error' = LostText
               /\ recorder' # "recording"
               /\ tracks' # "running"
               /\ ~timer']_vars

\* The relay closed the socket of a session that had gone live and that no
\* stopRecording had begun to stop.
RelayLost == startPc = "done" /\ stopPc[1] = "idle" /\ wsState = "closed"

\* C23: after startRecording failed at any step, or after the relay was
\* lost while live, no capture track is running and the socket is not
\* open, whatever happens afterwards.
C23_NoResourcesLeft ==
    startPc = "failed" \/ RelayLost
        => tracks # "running" /\ wsState # "open"

\* C24: when getDisplayMedia is refused, the status becomes error in that
\* step, with the text of the refusal, and getDisplayMedia is not called
\* again; from then on the status stays error, POST /api/live-stream has
\* not been sent, no WebSocket has been created and getDisplayMedia has
\* been called once.
C24_DenialIsFatal ==
    /\ [](error = DeniedText
            => /\ status = "error"
               /\ requests = [capture |-> 1, stream |-> 0, socket |-> 0,
                              finish |-> 0, live |-> 0, complete |-> 0]
               /\ wsState = "none"
               /\ tracks = "none")
    /\ [][startPc = "capture"
            => /\ startPc' \in {"capture", "create", "failed"}
               /\ requests'.capture = requests.capture
               /\ startPc' = "failed"
                    => /\ status' = "error"
                       /\ error' = DeniedText
                       /\ requests' = requests]_vars

\* The capture was refused and the session is in the error status.
C24_Witness ==
    /\ error = DeniedText
    /\ status = "error"
    /\ startPc = "failed"
    /\ requests.capture = 1

C26_StartUploadLooksUp ==
    /\ [](\A t \in TaskIds :
            tasks[t].fn = "startUpload"
                => \A i \in 1..Len(tasks[t].puts) :
                        tasks[t].puts[i] = tasks[t].rec)
    /\ [][\A t \in TaskIds :
            tasks[t].pc = "lookup" /\ tasks'[t] # tasks[t] /\ faults' = faults
                => IF Present(tasks[t].rec)
                   THEN /\ tasks'[t].pc = "usRead"
                        /\ tasks'[t].rec = tasks[t].rec
                   ELSE /\ tasks'[t].pc = "done"
                        /\ tasks'[t].puts = <<>>
                        /\ store' = store
                        /\ notes' = notes
                        /\ inbox' = inbox]_vars
    /\ [][\A t \in TaskIds :
            tasks[t].pc = "done" => tasks'[t] = tasks[t]]_vars

\* A START_UPLOAD for an id without a record has ended without a PUT, and
\* without a failed IndexedDB request.
C26_Witness ==
    \E t \in TaskIds :
        /\ tasks[t].fn = "startUpload"
        /\ tasks[t].pc = "done"
        /\ tasks[t].puts = <<>>
        /\ ~tasks[t].fault
        /\ ~Present(tasks[t].rec)
        /\ notes = {}
        /\ \A p \in Pages, k \in NoteKinds \X Ids : inbox[p][k] = 0

\* The chunks of the session that have been PUT, in order: the first
\* attempt of each.
FirstAttempt(put) == put.attempt = 1

ChunksPut == SelectSeq(issued, FirstAttempt)

RECURSIVE SumSizes(_)
SumSizes(chunks) ==
    IF chunks = <<>> THEN 0
    ELSE chunks[1].size + SumSizes(Tail(chunks))

\* C27: the chunks of one delivery have contiguous, increasing offsets:
\* the start of chunk i is the sum of the sizes of the chunks before it,
\* its end is start + size - 1, and a repeated attempt has the range of
\* the first.
C27_ContiguousOffsets ==
    /\ \A i \in 1..Len(ChunksPut) :
            /\ ChunksPut[i].start = SumSizes(SubSeq(ChunksPut, 1, i - 1))
            /\ ChunksPut[i].end = ChunksPut[i].start + ChunksPut[i].size - 1
            /\ i > 1 => ChunksPut[i].start > ChunksPut[i - 1].start
    /\ \A i \in 2..Len(issued) :
            issued[i].attempt > 1
                => issued[i] = [issued[i - 1] EXCEPT !.attempt = @ + 1]

\* A payload of 600000 bytes has gone out as two chunks of 262144 bytes
\* and a final one of 75712 bytes at offset 524288.
C27_Witness ==
    /\ Len(ChunksPut) = 3
    /\ ChunksPut[3].start = 524288
    /\ ChunksPut[3].end = 599999
    /\ ChunksPut[3].final
    /\ uploadedBytes = 600000

\* C28: every chunk PUT that is not the final one has a length that is a
\* positive multiple of 262144; the final chunk has any length.
C28_NonFinalAligned ==
    \A i \in 1..Len(issued) :
        ~issued[i].final
            => issued[i].size > 0 /\ issued[i].size % 262144 = 0

\* Chunks of 262144 bytes have been PUT and then an empty final chunk.
C28_Witness ==
    /\ Len(ChunksPut) >= 2
    /\ ~ChunksPut[1].final
    /\ ChunksPut[Len(ChunksPut)].final
    /\ ChunksPut[Len(ChunksPut)].size = 0

\* C29: a chunk is attempted at most 3 times, each further attempt after
\* a failed one; after the third failure the session is permanently
\* failed, no chunk PUT is issued any more, and the whole payload
\* received is handed to deferred delivery.
C29_RetryCeiling ==
    /\ [](\A i \in 1..Len(issued) : issued[i].attempt \in 1..3)
    /\ [](sessionFailed
            => /\ issued # <<>>
               /\ issued[Len(issued)].attempt = 3
               /\ inFlight = {}
               /\ deferred = totalBytes)
    /\ [](~sessionFailed => deferred = -1)
    /\ [][sessionFailed => issued' = issued /\ sessionFailed']_vars
    /\ [][(\E put \in inFlight :
                PutDone(put, "status500") /\ put.attempt = 3)
            => sessionFailed' /\ issued' = issued]_vars

\* The third attempt of a chunk failed: the session is permanently failed
\* with a payload of 600000 bytes handed to deferred delivery.
C29_Witness ==
    /\ sessionFailed
    /\ deferred = 600000
    /\ Len(issued) >= 3
    /\ issued[Len(issued)].attempt = 3

\* C30: the chunks of a delivery are PUT in increasing offset order, one
\* PUT in flight at a time: the first attempt of a chunk is issued only
\* when no PUT is in flight and every chunk before it has been confirmed,
\* also when chunks are queued while a delivery loop is draining.
C30_OneChunkAtATime ==
    /\ [](Cardinality(inFlight) <= 1)
    /\ [](\A i \in 2..Len(issued) : issued[i].start >= issued[i - 1].start)
    /\ [][issued' # issued /\ issued'[Len(issued')].attempt = 1
            => /\ inFlight = {}
               /\ uploadedBytes = SumSizes(ChunksPut)
               /\ issued'[Len(issued')].start = uploadedBytes]_vars

\* The first chunk is confirmed, the second is in flight and a third
\* waits in the FIFO of the one delivery loop.
C30_Witness ==
    /\ Len(ChunksPut) = 2
    /\ uploadedBytes = ChunksPut[1].size
    /\ loops = 1
    /\ inFlight = {ChunksPut[2]}
    /\ pending # <<>>

\* ------------------------------------------------------------------ C31
\* C31: over any interleaving of getDB calls of one UploadService,
\* including calls made while the first open is under way,
\* indexedDB.open is called at most once, and every call that gets a
\* connection gets that one, which is the connection the instance holds.
C31_OneConnection ==
    /\ opens <= 1
    /\ db \in {0, 1}
    /\ \A c \in DbCalls : getting[c].pc = "got" => getting[c].conn = 1 /\ db = 1

\* Two calls made before the open finished and one made after it have the
\* same connection.
C31_Witness ==
    /\ opens = 1
    /\ \E b, c \in DbCalls :
            /\ b # c
            /\ getting[b].waited /\ getting[b].pc = "got"
            /\ getting[c].waited /\ getting[c].pc = "got"
    /\ \E c \in DbCalls :
            ~getting[c].waited /\ getting[c].pc = "got" /\ getting[c].conn = 1

\* ------------------------------------------------------------------ C32
\* C32: no record stays in status uploading for ever: once the worker is
\* triggered again, a record whose delivery was cut short by the
\* termination of the worker is delivered (deleted) or marked failed.
\* Stated for the runs in which no IndexedDB request fails.
C32_NoRecordStuck ==
    \A id \in Ids :
        (store[id].status = "uploading" /\ faults = 0)
            ~> (store[id].status # "uploading" \/ faults > 0)

\* C33: every call of stopRecording that has begun ends with the status
\* complete and the callback called with the final result, whatever the
\* socket does meanwhile.
C33_StopCompletes ==
    \A k \in Stops :
        stopPc[k] # "idle"
            ~> (stopPc[k] = "done" /\ requests.complete > 0)

\* The numbers of the frames sent on the socket, in the order sent.
SentFrames == SelectSeq(outbound, LAMBDA m : m.kind = "frame")

\* C34: the frames sent on the socket are captured frames, in capture
\* order and each at most once; and a step that sends a frame sends the
\* chunk of the latest dataavailable event, of non-zero length, on a
\* socket that is open.
C34_FramesInOrder ==
    /\ [](\A i, j \in 1..Len(SentFrames) :
            /\ SentFrames[i].n \in 1..frameNo
            /\ i < j => SentFrames[i].n < SentFrames[j].n)
    /\ [][outbound' # outbound /\ ~WsOpen
            => /\ wsState = "open"
               /\ outbound' = Append(outbound, Frame(frameNo'))
               /\ frameNo' = frameNo + 1
               /\ bufferedAmount' > bufferedAmount]_vars

\* Frames 1 and 3 were sent and frame 2 was not; the socket has been
\* closed since, and a chunk that came after the close was not sent.
C34_Witness ==
    /\ Len(SentFrames) = 2
    /\ SentFrames[1].n = 1
    /\ SentFrames[2].n = 3
    /\ wsState = "closed"
    /\ frameNo = 4

\* The size of the largest chunk the recorder delivers.
LargestFrame == CHOOSE size \in FrameSizes : \A other \in FrameSizes : other <= size

\* C35: the occupancy of the socket's send buffer never exceeds the
\* ceiling (5 MiB) by more than one frame; it grows only by a frame that
\* is sent, and a frame is sent only while the occupancy is at most the
\* ceiling.
C35_BoundedSendMemory ==
    /\ [](bufferedAmount <= WS_BUFFER_LIMIT + LargestFrame)
    /\ [][bufferedAmount' > bufferedAmount
            => /\ bufferedAmount <= WS_BUFFER_LIMIT
               /\ outbound' = Append(outbound, Frame(frameNo'))
               /\ bufferedAmount' - bufferedAmount \in FrameSizes]_vars

\* A frame was sent with the buffer exactly at the ceiling: the occupancy
\* is the ceiling and one frame of the largest size.
C35_Witness ==
    /\ bufferedAmount = WS_BUFFER_LIMIT + LargestFrame
    /\ Len(SentFrames) >= 2

\* C36: in one live session DELETE /api/live-stream is sent at most once
\* and onUploadComplete is called with status complete at most once.
C36_FinishOnce == requests.finish <= 1 /\ requests.complete <= 1

\* C37: when the capture's track ends while the session is connecting,
\* the session does not become live afterwards: no recorder runs, no frame
\* is sent, onUploadComplete is not called with status live, and once
\* startRecording has ended the socket is not open.
C37_EndedWhileConnecting ==
    tracks = "ended" /\ requests.live = 0
        => /\ status # "live"
           /\ recorder = "none"
           /\ SentFrames = <<>>
           /\ startPc = "failed" => wsState # "open"

\* A call of stopRecording has begun.
StopBegun == \E k \in Stops : stopPc[k] # "idle"

\* C38: once a stop has begun, no close of the socket is reported as the
\* loss of the relay: the error text of the relay loss is not set and the
\* status does not become error.
C38_StopIsNotRelayLoss ==
    [][StopBegun
         => /\ error' = LostText => error = LostText
            /\ status' = "error" => status = "error"]_vars

====
